---------------------------- MODULE Spec2Model ----------------------------
(***************************************************************************)
(* Model of the sick-letter backend: the /api/generate handler of          *)
(* server.py (render, insert, deliver to the administrator, clean up) and  *)
(* the delivery chain of utils/email_sender.py (email, then Google Drive). *)
(*                                                                         *)
(* The handler is a coroutine on one event loop.  It runs synchronously    *)
(* from its entry to `await db.sick_letters.insert_one(doc)` and again     *)
(* from the point where that await resumes to its return; other requests   *)
(* run only while it is suspended in the await.  Each request therefore    *)
(* takes three steps: generate_sick_letter_render, insert_one and          *)
(* generate_sick_letter_resume.                                            *)
(***************************************************************************)
EXTENDS Integers, Sequences, FiniteSets, TLC

\* ------------------------------------------------------------------ bounds
NumRequests == 2
MaxClock == 2

Requests == 1..NumRequests
Seconds == 1..MaxClock

\* ------------------------------------------------------- values of the code
\* Python's None
None == "None"

\* what a request's form field `data` can be: not JSON at all; JSON without
\* the date keys read at server.py:123; JSON that renders but does not
\* validate as a SickLetterRecord; a complete record
DataKinds == {"bad_json", "no_dates", "invalid_record", "ok"}

\* str(e) of the exceptions the SMTP transport raises (connect, login, send)
SmtpErrors == {"SMTPAuthenticationError", "timed out"}
\* what the SMTP exchange of one call does: it goes through, or raises
SmtpOutcomes == {"sent"} \cup SmtpErrors

\* str(e) of the ImportError raised at email_sender.py:197 when the Google
\* client library is not installed
DriveImportError == "No module named 'googleapiclient'"

\* the environments a process is started in: each field is TRUE when the
\* variable is set to a non-empty value (drive_lib: the Google client
\* library is installed; sick_letter_docx: TEMPLATES_DIR holds the template
\* sick_letter.docx).  Everything set, everything missing, and each of the
\* five missing alone.
AllSet == [SMTP_EMAIL |-> TRUE, SMTP_PASSWORD |-> TRUE,
           GOOGLE_DRIVE_FOLDER_ID |-> TRUE, drive_lib |-> TRUE,
           sick_letter_docx |-> TRUE]
Environments ==
    {AllSet} \cup {[k \in DOMAIN AllSet |-> FALSE]}
    \cup {[AllSet EXCEPT ![k] = FALSE] : k \in DOMAIN AllSet}

\* an exception leaving a function, carrying str(e)
Raise(e) == [exc |-> e]
IsRaise(x) == "exc" \in DOMAIN x

\* the channels send_letter_to_admin calls, in call order
Channels == <<"email", "drive">>

VARIABLES
    env,            \* process environment read at start (credentials, folder id, installed libraries)
    now,            \* the wall clock, in whole seconds (datetime.now() to %H%M%S)
    temps,          \* TEMPS_DIR: second of the file name -> request whose document the file holds, 0 = no file
    uploads,        \* UPLOADS_DIR: requests whose logo file is on disk
    sick_letters,   \* db.sick_letters: sequence of inserted documents
    pc,             \* per request: where its coroutine stands
    logo_path,      \* per request, while it runs: TRUE when a logo was uploaded (logo_path is not None)
    docx_path,      \* per request, while it runs: second naming the staged file, 0 before rendering
    response,       \* per request: the HTTP response, None while running
    rendered,       \* requests whose document the renderer has written
    saved,          \* requests whose insert_one has returned
    dispatched,     \* per request: number of send_letter_to_admin invocations
    calls,          \* per request: what each channel call of its dispatch returned, in call order
    transport,      \* per request: the network connections its dispatch opened, in order
    inbox,          \* mails the administrator received
    removed,        \* staged files deleted: who deleted whose document
    log,            \* channel error strings written to the logger
    form,           \* per request: what the client submits (JSON keys of `data`, the paper_size field)
    layout,         \* per request: which renderer wrote its document, from which template or page size
    confirmations,  \* the record ids confirm-payment was called for with confirmed = true
    last            \* the last confirm-payment or export-excel call and its response

vars == <<env, now, temps, uploads, sick_letters, pc, logo_path, docx_path,
          response, rendered, saved, dispatched, calls, transport, inbox,
          removed, log, form, layout, confirmations, last>>

\* ------------------------------------------------------------ email_sender
\* the three dicts a channel function returns
Failed(method, error) ==
    [success |-> FALSE, method |-> method, error |-> error]
Succeeded(method) ==
    [success |-> TRUE, method |-> method, error |-> None]

\* variant of _send_via_email without the except clause: the exception of
\* the SMTP exchange leaves the function
_send_via_email_raising(patient_data, pdf_path, smtp) ==
    IF ~env.SMTP_EMAIL \/ ~env.SMTP_PASSWORD
    THEN [ret |-> Failed("email", "SMTP credentials not configured"),
          transport |-> <<>>, mail |-> {}]
    ELSE IF temps[pdf_path] = 0
    THEN [ret |-> Failed("email", "PDF file not found"),
          transport |-> <<>>, mail |-> {}]
    ELSE IF smtp = "sent"
    THEN [ret |-> Succeeded("email"),
          transport |-> <<[channel |-> "email", outcome |-> smtp]>>,
          mail |-> {[patient |-> patient_data, attachment |-> temps[pdf_path]]}]
    ELSE [ret |-> Raise(smtp),
          transport |-> <<[channel |-> "email", outcome |-> smtp]>>,
          mail |-> {}]

\* variant of _send_via_email that checks the credentials after the SMTP
\* exchange instead of first
_send_via_email_connect_first(patient_data, pdf_path, smtp) ==
    IF temps[pdf_path] = 0
    THEN [ret |-> Failed("email", "PDF file not found"),
          transport |-> <<>>, mail |-> {}]
    ELSE IF smtp # "sent"
    THEN [ret |-> Failed("email", smtp),
          transport |-> <<[channel |-> "email", outcome |-> smtp]>>,
          mail |-> {}]
    ELSE IF ~env.SMTP_EMAIL \/ ~env.SMTP_PASSWORD
    THEN [ret |-> Failed("email", "SMTP credentials not configured"),
          transport |-> <<[channel |-> "email", outcome |-> smtp]>>,
          mail |-> {}]
    ELSE [ret |-> Succeeded("email"),
          transport |-> <<[channel |-> "email", outcome |-> smtp]>>,
          mail |-> {[patient |-> patient_data, attachment |-> temps[pdf_path]]}]

\* variant of _send_via_email that opens pdf_path without the test at line
\* 141 and outside the try: the error of open() leaves the function
_send_via_email_missing_file_raises(patient_data, pdf_path, smtp) ==
    IF ~env.SMTP_EMAIL \/ ~env.SMTP_PASSWORD
    THEN [ret |-> Failed("email", "SMTP credentials not configured"),
          transport |-> <<>>, mail |-> {}]
    ELSE IF temps[pdf_path] = 0
    THEN [ret |-> Raise("No such file or directory"),
          transport |-> <<>>, mail |-> {}]
    ELSE IF smtp = "sent"
    THEN [ret |-> Succeeded("email"),
          transport |-> <<[channel |-> "email", outcome |-> smtp]>>,
          mail |-> {[patient |-> patient_data, attachment |-> temps[pdf_path]]}]
    ELSE [ret |-> Failed("email", smtp),
          transport |-> <<[channel |-> "email", outcome |-> smtp]>>,
          mail |-> {}]

\* _send_via_email: the credentials check, the attachment read from
\* pdf_path, the SMTP exchange; every exception inside is caught and becomes
\* a failed result carrying str(e).
\* smtp: what the SMTP exchange does when it is reached.
\* ret: the dict returned; transport: connections opened; mail: mails sent
_send_via_email(patient_data, pdf_path, smtp) ==
    IF ~env.SMTP_EMAIL \/ ~env.SMTP_PASSWORD
    THEN [ret |-> Failed("email", "SMTP credentials not configured"),
          transport |-> <<>>, mail |-> {}]
    ELSE IF temps[pdf_path] = 0
    THEN [ret |-> Failed("email", "PDF file not found"),
          transport |-> <<>>, mail |-> {}]
    ELSE IF smtp = "sent"
    THEN [ret |-> Succeeded("email"),
          transport |-> <<[channel |-> "email", outcome |-> smtp]>>,
          mail |-> {[patient |-> patient_data, attachment |-> temps[pdf_path]]}]
    ELSE [ret |-> Failed("email", smtp),
          transport |-> <<[channel |-> "email", outcome |-> smtp]>>,
          mail |-> {}]

\* variant of _upload_to_drive with the upload in place of the stub: it
\* succeeds when the library and the folder id are there
_upload_to_drive_uploads(patient_data, pdf_path) ==
    IF ~env.drive_lib
    THEN [ret |-> Failed("drive", DriveImportError), transport |-> <<>>]
    ELSE IF ~env.GOOGLE_DRIVE_FOLDER_ID
    THEN [ret |-> Failed("drive", "Google Drive folder ID not configured"),
          transport |-> <<>>]
    ELSE [ret |-> Succeeded("drive"), transport |-> <<>>]

\* _upload_to_drive: the imports, the folder id check, then the stub that
\* reports the missing service account; it opens no connection
_upload_to_drive(patient_data, pdf_path) ==
    IF ~env.drive_lib
    THEN [ret |-> Failed("drive", DriveImportError), transport |-> <<>>]
    ELSE IF ~env.GOOGLE_DRIVE_FOLDER_ID
    THEN [ret |-> Failed("drive", "Google Drive folder ID not configured"),
          transport |-> <<>>]
    ELSE [ret |-> Failed("drive",
                         "Google Drive service account not configured"),
          transport |-> <<>>]

\* one call made by send_letter_to_admin to a channel function: an exception
\* of the callee propagates, its result is appended to the calls made so far
Propagate(e) ==
    [ret |-> e.ret, calls |-> <<e.ret>>, transport |-> e.transport,
     mail |-> e.mail, logged |-> {}]

\* the error strings the logger has received once both channels have failed:
\* the warning at line 56 carries the email error, the error at line 223 the
\* exception caught in _upload_to_drive
Logged(e, d) ==
    {e.ret.error} \cup
    (IF d.ret.error = DriveImportError THEN {d.ret.error} ELSE {})

\* variant of send_letter_to_admin without the early return at line 53
send_letter_to_admin_always_drive(patient_data, pdf_path, smtp) ==
    LET e == _send_via_email(patient_data, pdf_path, smtp)
        d == _upload_to_drive(patient_data, pdf_path)
    IN  IF IsRaise(e.ret) THEN Propagate(e)
        ELSE [ret |-> IF e.ret.success THEN e.ret
                      ELSE IF d.ret.success THEN d.ret ELSE e.ret,
              calls |-> <<e.ret, d.ret>>,
              transport |-> e.transport \o d.transport,
              mail |-> e.mail,
              logged |-> IF e.ret.success THEN {} ELSE Logged(e, d)]

\* variant of send_letter_to_admin returning drive_result at line 59 also
\* when Drive failed
send_letter_to_admin_returns_drive(patient_data, pdf_path, smtp) ==
    LET e == _send_via_email(patient_data, pdf_path, smtp)
        d == _upload_to_drive(patient_data, pdf_path)
    IN  IF IsRaise(e.ret) THEN Propagate(e)
        ELSE IF e.ret.success
        THEN [Propagate(e) EXCEPT !.logged = {}]
        ELSE [ret |-> d.ret,
              calls |-> <<e.ret, d.ret>>,
              transport |-> e.transport \o d.transport,
              mail |-> e.mail,
              logged |-> Logged(e, d)]

\* variant of send_letter_to_admin calling Drive before email
send_letter_to_admin_drive_first(patient_data, pdf_path, smtp) ==
    LET e == _send_via_email(patient_data, pdf_path, smtp)
        d == _upload_to_drive(patient_data, pdf_path)
    IN  IF IsRaise(e.ret)
        THEN [Propagate(e) EXCEPT !.calls = <<d.ret, e.ret>>]
        ELSE [ret |-> e.ret,
              calls |-> <<d.ret, e.ret>>,
              transport |-> d.transport \o e.transport,
              mail |-> e.mail,
              logged |-> IF e.ret.success THEN {} ELSE Logged(e, d)]

\* variant of send_letter_to_admin that calls email a second time when the
\* first call failed, before it falls back to Drive
send_letter_to_admin_retry_email(patient_data, pdf_path, smtp) ==
    LET e == _send_via_email(patient_data, pdf_path, smtp)
        d == _upload_to_drive(patient_data, pdf_path)
    IN  IF IsRaise(e.ret) THEN Propagate(e)
        ELSE IF e.ret.success THEN Propagate(e)
        ELSE [ret |-> IF d.ret.success THEN d.ret ELSE e.ret,
              calls |-> <<e.ret, e.ret, d.ret>>,
              transport |-> e.transport \o e.transport \o d.transport,
              mail |-> e.mail,
              logged |-> Logged(e, d)]

\* send_letter_to_admin: email first; Drive only when email failed; the
\* Drive result is returned when it succeeded, the email result otherwise.
\* ret: the dict returned (or the exception that left); calls: what each
\* channel call returned, in call order
send_letter_to_admin(patient_data, pdf_path, smtp) ==
    LET e == _send_via_email(patient_data, pdf_path, smtp)
        d == _upload_to_drive(patient_data, pdf_path)
    IN  IF IsRaise(e.ret) THEN Propagate(e)
        ELSE IF e.ret.success THEN Propagate(e)
        ELSE IF IsRaise(d.ret)
        THEN [ret |-> d.ret,
              calls |-> <<e.ret, d.ret>>,
              transport |-> e.transport \o d.transport,
              mail |-> e.mail,
              logged |-> {e.ret.error}]
        ELSE [ret |-> IF d.ret.success THEN d.ret ELSE e.ret,
              calls |-> <<e.ret, d.ret>>,
              transport |-> e.transport \o d.transport,
              mail |-> e.mail,
              logged |-> Logged(e, d)]

\* ------------------------------------------------------------------ server
\* HTTPException(status_code, detail)
HTTPException(status_code, detail) ==
    [status |-> status_code, detail |-> detail]

\* the dict returned at server.py:190, sent with status 200
SuccessResponse(email_result) ==
    [status |-> 200,
     body |-> [success |-> TRUE,
               message |-> "Surat berhasil dibuat dan telah dikirim ke admin.",
               sent_to |-> "achmadkabir003@gmail.com",
               email_status |-> email_result]]

\* the paper sizes a client sends: those render_docx_with_docxtpl knows,
\* and A5, which only create_docx_from_scratch knows, in both cases
PaperSizes == {"A4", "A3", "A4Sehat", "A3Sehat", "A5", "a5"}

\* ids a client writes into its JSON data; uuid4() never returns one of them
ClientIds == {0}
\* str(uuid.uuid4()) for the record of request r: a value no other call
\* returns
uuid4(r) == r

\* dict.get(key, default)
get(d, key, default) == IF key \in DOMAIN d THEN d[key] ELSE default

\* the JSON object of a complete record that sets none of the optional keys
\* (the keys every complete record has stand under name)
PlainData == [name |-> "patient"]
\* a form: the JSON object in `data` and the paper_size field, "A4" when
\* the client leaves it out
PlainForm == [data |-> PlainData, paper_size |-> "A4"]

\* SickLetterRecord(**patient_data).model_dump(): the keys of the client's
\* JSON are the constructor's arguments, the defaults fill what it left out
SickLetterRecord(r, patient_data) ==
    [request |-> r,
     id |-> get(patient_data, "id", uuid4(r)),
     payment_confirmed |-> get(patient_data, "payment_confirmed", FALSE)]

\* str.upper() on the paper sizes
upper(paper_size) == IF paper_size = "a5" THEN "A5" ELSE paper_size

\* render_docx_with_docxtpl: the template chosen from data["paper_size"]
render_docx_with_docxtpl(data) ==
    LET paper_size == get(data, "paper_size", "A4")
    IN  [renderer |-> "docxtpl",
         template |-> IF paper_size = "A3" THEN "sick_letter_horizontal.docx"
                      ELSE IF paper_size = "A4" THEN "sick_letter.docx"
                      ELSE IF paper_size = "A3Sehat"
                      THEN "sick_letter_horizontal_sehat.docx"
                      ELSE IF paper_size = "A4Sehat"
                      THEN "sick_letter_sehat.docx"
                      ELSE "sick_letter.docx"]

\* create_docx_from_scratch: no template, the page is A5 or A4
create_docx_from_scratch(data, paper_size) ==
    [renderer |-> "scratch",
     template |-> None,
     page |-> IF upper(paper_size) = "A5" THEN "A5" ELSE "A4"]

\* the renderer generate_sick_letter calls for a form (server.py:147-160)
Rendering(f) ==
    IF env.sick_letter_docx
    THEN render_docx_with_docxtpl(f.data)
    ELSE create_docx_from_scratch(f.data, f.paper_size)

\* the handler of request r ends with the response resp; its locals are gone
Respond(r, resp) ==
    /\ response' = [response EXCEPT ![r] = resp]
    /\ pc' = [pc EXCEPT ![r] = "done"]
    /\ logo_path' = [logo_path EXCEPT ![r] = FALSE]
    /\ docx_path' = [docx_path EXCEPT ![r] = 0]

\* the process has started in one of the environments envs, the store
\* holds one of stores, and the requests to come carry forms of forms
Start(envs, stores, forms) ==
    /\ env \in envs
    /\ sick_letters \in stores
    /\ form \in [Requests -> forms]
    /\ layout = [r \in Requests |-> None]
    /\ confirmations = {}
    /\ last = [handler |-> None]
    /\ now = 1
    /\ temps = [s \in Seconds |-> 0]
    /\ uploads = {}
    /\ pc = [r \in Requests |-> "received"]
    /\ logo_path = [r \in Requests |-> FALSE]
    /\ docx_path = [r \in Requests |-> 0]
    /\ response = [r \in Requests |-> None]
    /\ rendered = {}
    /\ saved = {}
    /\ dispatched = [r \in Requests |-> 0]
    /\ calls = [r \in Requests |-> <<>>]
    /\ transport = [r \in Requests |-> <<>>]
    /\ inbox = {}
    /\ removed = {}
    /\ log = {}

\* a fresh store; the JSON of every request sets neither id nor
\* payment_confirmed nor paper_size
Init == Start(Environments, {<<>>}, {PlainForm})

\* the clock advances by one second
Tick ==
    /\ now < MaxClock
    /\ now' = now + 1
    /\ UNCHANGED <<env, temps, uploads, sick_letters, pc, logo_path,
                   docx_path, response, rendered, saved, dispatched, calls,
                   transport, inbox, removed, log, form, layout,
                   confirmations, last>>

\* generate_sick_letter from its entry to the await of insert_one:
\* parse the JSON, format the dates, store the logo, render the document to
\* TEMPS_DIR/sick_letter_<second>.docx, build the SickLetterRecord.
\* data: the kind of form data; logo: a logo was uploaded; renders: the
\* renderer returns (it raises otherwise)
generate_sick_letter_render(r, data, logo, renders) ==
    /\ pc[r] = "received"
    /\ IF data = "bad_json"
       THEN /\ Respond(r, HTTPException(400, "Invalid JSON data"))
            /\ UNCHANGED <<uploads, temps, rendered, layout>>
       ELSE IF data = "no_dates"
       THEN /\ Respond(r, HTTPException(500, "Error generating letter"))
            /\ UNCHANGED <<uploads, temps, rendered, layout>>
       ELSE /\ uploads' = IF logo THEN uploads \cup {r} ELSE uploads
            /\ IF ~renders
               THEN /\ Respond(r, HTTPException(500, "Error generating letter"))
                    /\ UNCHANGED <<temps, rendered, layout>>
               ELSE /\ temps' = [temps EXCEPT ![now] = r]
                    /\ rendered' = rendered \cup {r}
                    /\ layout' = [layout EXCEPT ![r] = Rendering(form[r])]
                    /\ IF data = "invalid_record"
                       THEN Respond(r, HTTPException(500,
                                                     "Error generating letter"))
                       ELSE /\ pc' = [pc EXCEPT ![r] = "awaiting_insert"]
                            /\ logo_path' = [logo_path EXCEPT ![r] = logo]
                            /\ docx_path' = [docx_path EXCEPT ![r] = now]
                            /\ UNCHANGED response
    /\ UNCHANGED <<env, now, sick_letters, saved, dispatched, calls,
                   transport, inbox, removed, log, form, confirmations,
                   last>>

\* variant of insert_one whose failure the handler does not notice
insert_one_failure_ignored(r, stored) ==
    /\ pc[r] = "awaiting_insert"
    /\ sick_letters' = IF stored THEN Append(sick_letters, SickLetterRecord(r, form[r].data))
                       ELSE sick_letters
    /\ saved' = IF stored THEN saved \cup {r} ELSE saved
    /\ pc' = [pc EXCEPT ![r] = "inserted"]
    /\ UNCHANGED <<response, logo_path, docx_path>>
    /\ UNCHANGED <<env, now, temps, uploads, rendered, dispatched, calls,
                   transport, inbox, removed, log, form, layout,
                   confirmations, last>>

\* db.sick_letters.insert_one(doc), awaited by the handler: the document is
\* stored, or the driver raises and the handler answers 500
insert_one(r, stored) ==
    /\ pc[r] = "awaiting_insert"
    /\ IF stored
       THEN /\ sick_letters' = Append(sick_letters, SickLetterRecord(r, form[r].data))
            /\ saved' = saved \cup {r}
            /\ pc' = [pc EXCEPT ![r] = "inserted"]
            /\ UNCHANGED <<response, logo_path, docx_path>>
       ELSE /\ Respond(r, HTTPException(500, "Error generating letter"))
            /\ UNCHANGED <<sick_letters, saved>>
    /\ UNCHANGED <<env, now, temps, uploads, rendered, dispatched, calls,
                   transport, inbox, removed, log, form, layout,
                   confirmations, last>>

\* variant of generate_sick_letter_resume answering 500 when the delivery
\* failed
generate_sick_letter_resume_hard_failure(r, smtp) ==
    /\ pc[r] = "inserted"
    /\ LET file_path == docx_path[r]
           out == send_letter_to_admin(r, file_path, smtp)
       IN  /\ uploads' = IF logo_path[r] THEN uploads \ {r} ELSE uploads
           /\ dispatched' = [dispatched EXCEPT ![r] = @ + 1]
           /\ calls' = [calls EXCEPT ![r] = out.calls]
           /\ transport' = [transport EXCEPT ![r] = @ \o out.transport]
           /\ inbox' = inbox \cup out.mail
           /\ log' = log \cup out.logged
           /\ IF IsRaise(out.ret) \/ ~out.ret.success
              THEN /\ Respond(r, HTTPException(500, "Error generating letter"))
                   /\ UNCHANGED <<temps, removed>>
              ELSE /\ Respond(r, SuccessResponse(out.ret))
                   /\ IF temps[file_path] # 0
                      THEN /\ temps' = [temps EXCEPT ![file_path] = 0]
                           /\ removed' = removed \cup
                                 {[by |-> r, document |-> temps[file_path]]}
                      ELSE UNCHANGED <<temps, removed>>
    /\ UNCHANGED <<env, now, sick_letters, rendered, saved, form, layout,
                   confirmations, last>>

\* generate_sick_letter from the resumption after insert_one to its return:
\* delete the logo, send the staged file to the administrator, delete the
\* staged file, answer 200 with the delivery result
generate_sick_letter_resume(r, smtp) ==
    /\ pc[r] = "inserted"
    /\ LET file_path == docx_path[r]
           out == send_letter_to_admin(r, file_path, smtp)
       IN  /\ uploads' = IF logo_path[r] THEN uploads \ {r} ELSE uploads
           /\ dispatched' = [dispatched EXCEPT ![r] = @ + 1]
           /\ calls' = [calls EXCEPT ![r] = out.calls]
           /\ transport' = [transport EXCEPT ![r] = @ \o out.transport]
           /\ inbox' = inbox \cup out.mail
           /\ log' = log \cup out.logged
           /\ IF IsRaise(out.ret)
              THEN /\ Respond(r, HTTPException(500, "Error generating letter"))
                   /\ UNCHANGED <<temps, removed>>
              ELSE /\ Respond(r, SuccessResponse(out.ret))
                   /\ IF temps[file_path] # 0
                      THEN /\ temps' = [temps EXCEPT ![file_path] = 0]
                           /\ removed' = removed \cup
                                 {[by |-> r, document |-> temps[file_path]]}
                      ELSE UNCHANGED <<temps, removed>>
    /\ UNCHANGED <<env, now, sick_letters, rendered, saved, form, layout,
                   confirmations, last>>

Next ==
    \/ Tick
    \/ \E r \in Requests, data \in DataKinds, logo \in BOOLEAN,
          renders \in BOOLEAN :
          generate_sick_letter_render(r, data, logo, renders)
    \/ \E r \in Requests, stored \in BOOLEAN : insert_one(r, stored)
    \/ \E r \in Requests, smtp \in SmtpOutcomes :
          generate_sick_letter_resume(r, smtp)

Spec == Init /\ [][Next]_vars

\* ------------------------------------------------ the store's handlers
\* the length given to to_list at server.py:231
to_list_length == 1000

\* the keys export_records_to_excel reads, in column order after 'No'
Columns == <<"date_issued", "letter_number", "name", "gender", "age",
             "occupation", "address", "duration", "from_date", "to_date",
             "notes", "doctor_name">>

\* what a stored record holds under a key of Columns: the value the
\* request that created it submitted
Cell(record, key) == <<key, record.request>>

\* str(e) of an HTTPException
str(e) == ToString(e.status) \o ": " \o e.detail

\* `except Exception as e` of a handler around an exception raised in its
\* try block: HTTPException is an Exception, so it is caught as well
except_Exception(message, e) ==
    HTTPException(500, message \o ": " \o str(e))

\* db.sick_letters.update_one({"id": record_id}, {"$set": {"payment_confirmed":
\* confirmed}}): the first document with that id is updated; modified_count
\* counts the documents whose content changed
update_one(store, record_id, confirmed) ==
    IF \E i \in DOMAIN store : store[i].id = record_id
    THEN LET i == CHOOSE i \in DOMAIN store :
                     /\ store[i].id = record_id
                     /\ \A j \in DOMAIN store :
                           store[j].id = record_id => i <= j
         IN  [store |-> [store EXCEPT ![i].payment_confirmed = confirmed],
              matched_count |-> 1,
              modified_count |-> IF store[i].payment_confirmed = confirmed
                                 THEN 0 ELSE 1]
    ELSE [store |-> store, matched_count |-> 0, modified_count |-> 0]

\* confirm_payment: the update, 404 when nothing was modified, else success;
\* the 404 is raised inside the try and caught by its except
confirm_payment(record_id, confirmed) ==
    LET result == update_one(sick_letters, record_id, confirmed)
    IN  /\ sick_letters' = result.store
        /\ confirmations' = IF confirmed
                            THEN confirmations \cup {record_id}
                            ELSE confirmations
        /\ last' =
              [handler |-> "confirm_payment",
               record_id |-> record_id,
               confirmed |-> confirmed,
               matched_count |-> result.matched_count,
               response |->
                  IF result.modified_count = 0
                  THEN except_Exception("Error confirming payment",
                          HTTPException(404, "Record not found"))
                  ELSE [status |-> 200,
                        body |-> [success |-> TRUE,
                                  message |-> "Payment confirmed"]]]
        /\ UNCHANGED <<env, now, temps, uploads, pc, logo_path, docx_path,
                       response, rendered, saved, dispatched, calls,
                       transport, inbox, removed, log, form, layout>>

\* db.sick_letters.find({}, {"_id": 0}).to_list(length): the first `length`
\* documents of the collection
to_list(store, length) ==
    SubSeq(store, 1, IF Len(store) < length THEN Len(store) ELSE length)

\* export_records_to_excel: the data rows written under the header row, row
\* k holding k and the twelve columns of records[k]
export_records_to_excel(records) ==
    [k \in 1..Len(records) |->
        <<k>> \o [c \in 1..Len(Columns) |-> Cell(records[k], Columns[c])]]

\* export_excel: 404 when no record was found, else the workbook; the 404 is
\* raised inside the try and caught by its except
export_excel ==
    LET records == to_list(sick_letters, to_list_length)
    IN  /\ last' =
              [handler |-> "export_excel",
               stored |-> Len(sick_letters),
               response |->
                  IF records = <<>>
                  THEN except_Exception("Error exporting to Excel",
                          HTTPException(404, "No records found to export"))
                  ELSE [status |-> 200,
                        rows |-> export_records_to_excel(records)]]
        /\ UNCHANGED <<env, now, temps, uploads, sick_letters, pc, logo_path,
                       docx_path, response, rendered, saved, dispatched,
                       calls, transport, inbox, removed, log, form, layout,
                       confirmations>>

\* the JSON objects of clients that set id, payment_confirmed, both or none
StoreForms ==
    {[data |-> d, paper_size |-> "A4"] :
        d \in {PlainData}
              \cup {[name |-> "patient", id |-> i] : i \in ClientIds}
              \cup {[name |-> "patient", payment_confirmed |-> TRUE]}
              \cup {[name |-> "patient", id |-> i, payment_confirmed |-> TRUE] :
                       i \in ClientIds}}

\* the ids a confirm-payment call can name
RecordIds == ClientIds \cup {uuid4(r) : r \in Requests}

\* a fresh store, everything configured
StoreInit == Start({AllSet}, {<<>>}, StoreForms)

\* complete requests handled to the end, confirm-payment and export-excel
\* calls in between
StoreNext ==
    \/ \E r \in Requests :
          generate_sick_letter_render(r, "ok", FALSE, TRUE)
    \/ \E r \in Requests, stored \in BOOLEAN : insert_one(r, stored)
    \/ \E r \in Requests : generate_sick_letter_resume(r, "sent")
    \/ \E record_id \in RecordIds, confirmed \in BOOLEAN :
          confirm_payment(record_id, confirmed)
    \/ export_excel

StoreSpec == StoreInit /\ [][StoreNext]_vars

\* the store as the requests of the past left it: n records, each created
\* with its own uuid and not confirmed
Stored(n) ==
    [i \in 1..n |-> [request |-> i, id |-> uuid4(i),
                     payment_confirmed |-> FALSE]]
\* the store sizes export-excel is called on
MaxStored == 1001

ExportInit == Start({AllSet}, {Stored(n) : n \in 0..MaxStored}, {PlainForm})

ExportNext == export_excel

ExportSpec == ExportInit /\ [][ExportNext]_vars

\* ------------------------------------------------- the renderer's choice
\* the forms of the requests that choose a paper size: in the paper_size
\* field, and in the JSON or not
RenderForms ==
    {[data |-> d, paper_size |-> p] :
        d \in {PlainData}
              \cup {[name |-> "patient", paper_size |-> q] : q \in PaperSizes},
        p \in PaperSizes}

\* the templates are deployed, or TEMPLATES_DIR is empty
RenderInit ==
    Start({AllSet, [AllSet EXCEPT !.sick_letter_docx = FALSE]}, {<<>>},
          RenderForms)

\* complete requests, handled to the end
RenderNext ==
    \/ \E r \in Requests, renders \in BOOLEAN :
          generate_sick_letter_render(r, "ok", FALSE, renders)
    \/ \E r \in Requests : insert_one(r, TRUE)
    \/ \E r \in Requests : generate_sick_letter_resume(r, "sent")

RenderSpec == RenderInit /\ [][RenderNext]_vars

\* ------------------------------------------------------------ the claims
\* a channel call returned a dict with success = True
CallOk(x) == ~IsRaise(x) /\ x.success
\* request r was answered 200: its body carries the dispatch's result
Answered(r) == pc[r] = "done" /\ response[r].status = 200
Outcome(r) == response[r].body.email_status
InStore(r) == \E i \in DOMAIN sick_letters : sick_letters[i].request = r
EmailConfigured == env.SMTP_EMAIL /\ env.SMTP_PASSWORD

\* C1: in every dispatch, once a channel call has returned success = true
\* no later channel is called: no call of the dispatch follows a
\* successful call.
C1_StopAtFirstSuccess ==
    \A r \in Requests : \A i, j \in DOMAIN calls[r] :
        i < j => ~CallOk(calls[r][i])
\* a dispatch whose first call, email, succeeded, and which made no other
C1_Witness ==
    \E r \in Requests :
        /\ dispatched[r] = 1
        /\ calls[r] = <<Succeeded("email")>>

\* C2: if every channel called by a dispatch failed, the outcome returned
\* has success = false and names no channel (its method is None).
C2_ExhaustedNamesNoChannel ==
    \A r \in Requests :
        (Answered(r) /\ \A i \in DOMAIN calls[r] : ~CallOk(calls[r][i]))
            => /\ Outcome(r).success = FALSE
               /\ Outcome(r).method = None

\* the ChannelResults the outcome of r's dispatch carries: the returned
\* dict is one result
ResultsCarried(r) == <<Outcome(r)>>
\* the position of the first successful call of r's dispatch, 0 if none
FirstSuccess(r) ==
    IF \E i \in DOMAIN calls[r] : CallOk(calls[r][i])
    THEN CHOOSE i \in DOMAIN calls[r] :
            /\ CallOk(calls[r][i])
            /\ \A j \in DOMAIN calls[r] : CallOk(calls[r][j]) => i <= j
    ELSE 0

\* C3 as stated: the outcome carries one ChannelResult per channel called,
\* in call order, so the error of every failed call is in the outcome.
C3_OutcomeCarriesEveryCall ==
    \A r \in Requests : Answered(r) => ResultsCarried(r) = calls[r]
\* C3 as amended: the number of channels called is the position of the
\* first successful call, or the channel count when none succeeds; the
\* outcome is one ChannelResult, that of the first successful call or, when
\* none succeeds, that of the email call, so it carries the email error and
\* not the Drive error.
C3_OneResultReturned ==
    \A r \in Requests :
        Answered(r) =>
            /\ Len(calls[r]) = IF FirstSuccess(r) # 0 THEN FirstSuccess(r)
                               ELSE Len(Channels)
            /\ Outcome(r) = IF FirstSuccess(r) # 0
                            THEN calls[r][FirstSuccess(r)]
                            ELSE calls[r][1]
            /\ FirstSuccess(r) = 0 =>
                  /\ Outcome(r).error = calls[r][1].error
                  /\ Outcome(r).error # calls[r][Len(Channels)].error
\* a dispatch in which both channels failed
C3_Witness ==
    \E r \in Requests :
        /\ Answered(r)
        /\ Len(calls[r]) = Len(Channels)
        /\ FirstSuccess(r) = 0

\* C4 as stated: the chain starts with the chat-bot channel, and email is
\* called only after a chat-bot call has failed.
C4_ChatBotBeforeEmail ==
    \A r \in Requests : \A i \in DOMAIN calls[r] :
        calls[r][i].method = "email" =>
            \E j \in DOMAIN calls[r] :
                /\ j < i
                /\ calls[r][j].method = "chat-bot"
                /\ ~CallOk(calls[r][j])
\* C4 as amended: the chain is email, then Drive: the calls of a dispatch
\* follow that order, Drive is called only after the email call has failed,
\* and when the SMTP exchange of the email call goes through the dispatch
\* returns success with method email after exactly one call.
C4_EmailThenDrive ==
    \A r \in Requests :
        /\ Len(calls[r]) <= Len(Channels)
        /\ \A i \in DOMAIN calls[r] :
              /\ ~IsRaise(calls[r][i])
              /\ calls[r][i].method = Channels[i]
              /\ i > 1 => ~CallOk(calls[r][i - 1])
        /\ dispatched[r] = 1 => Len(calls[r]) >= 1
        /\ (\E i \in DOMAIN transport[r] :
               transport[r][i] = [channel |-> "email", outcome |-> "sent"])
           => /\ Answered(r)
              /\ Outcome(r) = Succeeded("email")
              /\ Len(calls[r]) = 1
\* one dispatch succeeded by email alone, another fell back to Drive
C4_Witness ==
    \E r, q \in Requests :
        /\ Answered(r) /\ Outcome(r) = Succeeded("email") /\ Len(calls[r]) = 1
        /\ Answered(q) /\ Len(calls[q]) = 2 /\ calls[q][2].method = "drive"

\* C5: a generate request whose document was rendered and whose record was
\* inserted is answered 200 with the delivery result attached, whatever the
\* dispatch returned, and its record is in the store.
C5_DeliveryFailureIsSoft ==
    \A r \in saved :
        /\ r \in rendered
        /\ InStore(r)
        /\ pc[r] = "done" =>
              /\ response[r].status = 200
              /\ response[r].body.success = TRUE
              /\ dispatched[r] = 1
              /\ Outcome(r) \in {calls[r][i] : i \in DOMAIN calls[r]}
\* a saved request answered 200 although every channel failed
C5_Witness ==
    \E r \in saved :
        /\ Answered(r)
        /\ Outcome(r).success = FALSE
        /\ \A i \in DOMAIN calls[r] : ~CallOk(calls[r][i])
        /\ InStore(r)

\* C6: no channel call raises: every call of every dispatch returned a
\* dict, and a failed one carries the channel's own identifier and a
\* non-empty error string; every dispatch therefore returned a result.
C6_AdaptersNeverRaise ==
    \A r \in Requests :
        /\ \A i \in DOMAIN calls[r] :
              /\ ~IsRaise(calls[r][i])
              /\ calls[r][i].method = Channels[i]
              /\ ~calls[r][i].success => calls[r][i].error \notin {None, ""}
        /\ (dispatched[r] = 1 /\ pc[r] = "done") =>
              /\ response[r].status = 200
              /\ ~IsRaise(Outcome(r))
\* a dispatch in which the SMTP exchange raised and the Drive import raised
C6_Witness ==
    \E r \in Requests :
        /\ Answered(r)
        /\ Len(calls[r]) = 2
        /\ calls[r][1].error \in SmtpErrors
        /\ calls[r][2].error = DriveImportError

\* C7: a channel that is not fully configured opens no connection: every
\* connection a dispatch opened belongs to the email channel, and the SMTP
\* credentials were both set.
C7_UnconfiguredOpensNothing ==
    \A r \in Requests : \A i \in DOMAIN transport[r] :
        /\ transport[r][i].channel = "email"
        /\ EmailConfigured
\* a dispatch without SMTP credentials: email reported the missing
\* configuration, Drive was tried, nothing was opened
C7_Witness ==
    \E r \in Requests :
        /\ Answered(r)
        /\ ~EmailConfigured
        /\ calls[r][1] = Failed("email", "SMTP credentials not configured")
        /\ Len(calls[r]) = 2
        /\ transport[r] = <<>>

\* C8: concurrent generate requests are independent: every mail the
\* administrator receives for a request carries that request's document, a
\* request deletes only its own staged document, and a request whose
\* channels are configured and reachable is not failed for want of its
\* staged document.
C8_RequestsIndependent ==
    /\ \A m \in inbox : m.attachment = m.patient
    /\ \A d \in removed : d.document = d.by
    /\ \A r \in Requests :
          Answered(r) => Outcome(r).error # "PDF file not found"

\* C9: the dispatcher is invoked at most once per request, only after the
\* document was rendered and the record inserted, and exactly once in a
\* request answered 200; a request whose rendering or insert failed made no
\* channel call; the record of a saved request is in the store whatever
\* the dispatch returned.
C9_DispatchOnceAfterSave ==
    \A r \in Requests :
        /\ dispatched[r] <= 1
        /\ dispatched[r] = 1 => (r \in rendered /\ r \in saved)
        /\ (pc[r] = "done" /\ r \in saved) => dispatched[r] = 1
        /\ (pc[r] = "done" /\ r \notin rendered \cap saved) =>
              /\ dispatched[r] = 0
              /\ calls[r] = <<>>
              /\ transport[r] = <<>>
              /\ response[r].status # 200
        /\ r \in saved <=> InStore(r)
\* one request was dispatched after its save, another was rendered, failed
\* to insert and was not dispatched
C9_Witness ==
    \E r, q \in Requests :
        /\ Answered(r) /\ dispatched[r] = 1
        /\ pc[q] = "done" /\ q \in rendered /\ q \notin saved
        /\ dispatched[q] = 0

\* C10: the response of generate does not depend on the error strings of
\* the channel calls, which go to the log only: two requests answered 200
\* with the same delivery success get the same response, and no response
\* carries a logged channel error.
C10_ResponseHidesChannelErrors ==
    /\ \A r, q \in Requests :
          (Answered(r) /\ Answered(q)
             /\ Outcome(r).success = Outcome(q).success)
          => response[r] = response[q]
    /\ \A r \in Requests : Answered(r) => Outcome(r).error \notin log

\* C11 as stated: a dispatch whose staged document is missing (the request
\* found no file to delete after it) propagates a hard error, so the
\* request is answered 500 and no channel call reports the missing file as
\* its failure.
C11_MissingDocumentRaises ==
    \A r \in Requests :
        /\ (dispatched[r] = 1 /\ pc[r] = "done"
              /\ \A d \in removed : d.by # r)
           => response[r].status = 500
        /\ \A i \in DOMAIN calls[r] :
              IsRaise(calls[r][i]) \/ calls[r][i].error # "PDF file not found"
\* C11 as amended: a dispatch whose staged document is missing does not
\* raise: no channel call raises, the request is answered 200, and with the
\* SMTP credentials set the email call reports the ordinary failure
\* "PDF file not found" without opening a connection, Drive is called next
\* and the failed email result is returned.
C11_MissingDocumentIsChannelFailure ==
    \A r \in Requests :
        (dispatched[r] = 1 /\ pc[r] = "done" /\ \A d \in removed : d.by # r)
        => /\ response[r].status = 200
           /\ \A i \in DOMAIN calls[r] : ~IsRaise(calls[r][i])
           /\ EmailConfigured =>
                 /\ calls[r][1] = Failed("email", "PDF file not found")
                 /\ Len(calls[r]) = Len(Channels)
                 /\ transport[r] = <<>>
                 /\ Outcome(r) = calls[r][1]
\* a dispatch that found its staged document gone
C11_Witness ==
    \E r \in Requests :
        /\ Answered(r)
        /\ EmailConfigured
        /\ \A d \in removed : d.by # r
        /\ Outcome(r) = Failed("email", "PDF file not found")

\* C15: within one dispatch each channel is called at most once: no two
\* calls of a dispatch are of the same channel, and at most one SMTP
\* connection is opened.
C15_NoRetry ==
    \A r \in Requests :
        /\ \A i, j \in DOMAIN calls[r] :
              (i # j /\ ~IsRaise(calls[r][i]) /\ ~IsRaise(calls[r][j]))
                 => calls[r][i].method # calls[r][j].method
        /\ Len(calls[r]) <= Len(Channels)
        /\ Len(transport[r]) <= 1
\* a dispatch whose SMTP exchange raised: email was not called again
C15_Witness ==
    \E r \in Requests :
        /\ Answered(r)
        /\ calls[r][1].error \in SmtpErrors
        /\ Len(calls[r]) = 2
        /\ Len(transport[r]) = 1

\* C19: the Drive call never returns success, so the result of every
\* dispatch is the result of its email call: its method is email, it
\* succeeded exactly when the email call did, and it does not carry the
\* Drive error.
C19_ResultIsEmailResult ==
    \A r \in Requests :
        /\ \A i \in DOMAIN calls[r] :
              (~IsRaise(calls[r][i]) /\ calls[r][i].method = "drive")
                 => ~calls[r][i].success
        /\ Answered(r) =>
              /\ Outcome(r).method = "email"
              /\ Outcome(r).success = CallOk(calls[r][1])
              /\ Outcome(r) = calls[r][1]
              /\ \A i \in DOMAIN calls[r] :
                    calls[r][i].method = "drive"
                       => Outcome(r).error # calls[r][i].error
\* a dispatch that fell back to Drive with the folder id and the library
\* in place, and still returned the failed email result
C19_Witness ==
    \E r \in Requests :
        /\ Answered(r)
        /\ env.GOOGLE_DRIVE_FOLDER_ID /\ env.drive_lib
        /\ Len(calls[r]) = 2
        /\ calls[r][2].method = "drive"
        /\ Outcome(r).method = "email"
        /\ ~Outcome(r).success

\* C20: when generate has finished, with its 200 or with an error raised
\* after rendering, no staged document of that request and no logo it
\* uploaded is left on disk.
C20_NoStagedFileOutlivesRequest ==
    \A r \in Requests :
        pc[r] = "done" =>
            /\ r \notin uploads
            /\ \A t \in Seconds : temps[t] # r

\* C13: a document rendered from a template is rendered from the one that
\* belongs to the value of the paper_size form field: A3, A4, A3Sehat and
\* A4Sehat have their own, any other value takes the A4 template.
C13_TemplateFollowsPaperSizeField ==
    \A r \in rendered :
        layout[r].renderer = "docxtpl" =>
        layout[r].template =
            render_docx_with_docxtpl(
                [name |-> "patient", paper_size |-> form[r].paper_size]).template

\* C12: no two records of the store have the same id.
C12_RecordIdsDistinct ==
    \A i, j \in DOMAIN sick_letters :
        i # j => sick_letters[i].id # sick_letters[j].id

\* C14: after export-excel on a store that holds records, the workbook has
\* one data row per stored record, in store order, row k holding k and the
\* columns of record k.
C14_OneRowPerStoredRecord ==
    (last.handler = "export_excel" /\ last.stored > 0)
    => /\ last.response.status = 200
       /\ Len(last.response.rows) = last.stored
       /\ \A k \in DOMAIN last.response.rows :
             /\ Len(last.response.rows[k]) = 1 + Len(Columns)
             /\ last.response.rows[k][1] = k
             /\ \A c \in DOMAIN Columns :
                   last.response.rows[k][1 + c]
                      = Cell(sick_letters[k], Columns[c])

\* C16: confirm-payment for an id that is not in the store responds 404
\* "Record not found", and export-excel on an empty store responds 404
\* "No records found to export".
C16_NotFoundReachesClient ==
    /\ (last.handler = "confirm_payment" /\ last.matched_count = 0)
       => last.response = HTTPException(404, "Record not found")
    /\ (last.handler = "export_excel" /\ last.stored = 0)
       => last.response = HTTPException(404, "No records found to export")

\* C17: confirm-payment for an id that is in the store responds success and
\* leaves a record of that id with payment_confirmed = confirmed, also when
\* the record held that value before.
C17_ConfirmIsIdempotent ==
    (last.handler = "confirm_payment" /\ last.matched_count = 1)
    => /\ last.response.status = 200
       /\ \E i \in DOMAIN sick_letters :
             /\ sick_letters[i].id = last.record_id
             /\ sick_letters[i].payment_confirmed = last.confirmed

\* C18: a stored record has payment_confirmed = true only if confirm-payment
\* was called for its id with confirmed = true.
C18_ConfirmedOnlyByConfirmPayment ==
    \A i \in DOMAIN sick_letters :
        sick_letters[i].payment_confirmed = TRUE
           => sick_letters[i].id \in confirmations

=============================================================================
